---- MODULE Spec2Model ----
(***************************************************************************)
(* Model of the RCPSP scheduling engine of main.py: the precedence index   *)
(* (successors_by_predecessors), the critical path calculator              *)
(* (calculate_critical_times), the activity-order sampler                  *)
(* (ActivityListSampler) and the serial schedule decoder                   *)
(* (ActivityListDecoder.decode) with its linked time-capacity profile      *)
(* (TimeCapacityNode).                                                     *)
(*                                                                         *)
(* Python lists indexed from 0 are functions over 0..n-1; Python lists     *)
(* that are only iterated or appended to are sequences.  Objects that the  *)
(* code shares by reference (the capacity lists) live in a heap of         *)
(* vectors, and a TimeCapacityNode holds the index of its vector.          *)
(***************************************************************************)
EXTENDS Integers, Sequences, FiniteSets, TLC

\* ---------------------------------------------------------------- bounds
MaxN == 4
MaxDur == 1
NumRes == 1
MaxCap == 2
MaxDem == 2
NumCalls == 2
MaxListN == 3
MaxPreds == 2
MaxKey == 1
MaxCpmDur == 3

\* ------------------------------------------------------------- variables
VARIABLES
    n,              \* len(duration): the number of activities
    duration,       \* duration[i]
    predecessors,   \* predecessors[i]: a list of activity indices
    demands,        \* demands[i]: a vector, one entry per resource
    alist,          \* the activity order handed to decode
    succ,           \* main: succ = successors_by_predecessors(predecessors)
    est,            \* main: est, lst = calculate_critical_times(...)
    lst,
    pc,             \* where main / decode stands
    call,           \* how many decode calls main has started
    heap,           \* the list objects holding capacity vectors
    nodes,          \* the TimeCapacityNode objects of the running decode
    starts,         \* decode: starts
    finish_nodes,   \* decode: finish_nodes
    k,              \* decode: position of the for loop in alist
    st,             \* main: results returned by the decode calls so far
    res,            \* _gen: res
    rem,            \* _gen: rem
    ready,          \* _gen: ready
    rule            \* the pick policy of _gen

inputVars == <<n, duration, predecessors, demands, alist>>
mainVars == <<succ, est, lst, call, st>>
decodeVars == <<heap, nodes, starts, finish_nodes, k>>
genVars == <<res, rem, ready, rule>>
vars == <<n, duration, predecessors, demands, alist, succ, est, lst, pc, call,
          heap, nodes, starts, finish_nodes, k, st, res, rem, ready, rule>>

\* --------------------------------------------------------------- helpers
None == 0
CapacityRef == 1

Range(s) == {s[x] : x \in 1..Len(s)}

Acts(m) == 0..(m - 1)

RangeSeq(m) == [x \in 1..m |-> x - 1]

Max2(a, b) == IF a >= b THEN a ELSE b

RECURSIVE MaxSeq(_)
MaxSeq(s) ==
    IF Len(s) = 1 THEN s[1] ELSE Max2(s[1], MaxSeq(Tail(s)))

RECURSIVE MinSeq(_)
MinSeq(s) ==
    IF Len(s) = 1 THEN s[1]
    ELSE LET m == MinSeq(Tail(s)) IN IF s[1] <= m THEN s[1] ELSE m

RECURSIVE SumOver(_, _)
SumOver(S, f) ==
    IF S = {} THEN 0
    ELSE LET x == CHOOSE y \in S : TRUE IN f[x] + SumOver(S \ {x}, f)

ZeroVec == [r \in Acts(NumRes) |-> 0]

\* ------------------------------------------------------ precedence index
\* successors_by_predecessors: for each i the list of the j in range(n), in
\* increasing order, that list i among their predecessors.
\* the index with the membership test turned around
successors_swapped(preds) ==
    LET m == Cardinality(DOMAIN preds)
    IN [i \in Acts(m) |->
           SelectSeq(RangeSeq(m), LAMBDA j : j \in Range(preds[i]))]

successors_by_predecessors(preds) ==
    LET m == Cardinality(DOMAIN preds)
    IN [i \in Acts(m) |->
           SelectSeq(RangeSeq(m), LAMBDA j : i \in Range(preds[j]))]

\* ------------------------------------------------- critical path calculator
\* calc_es(i) writes est[i] (and, through the recursion, est of the activities
\* it pulls) and returns est[i]; the operator returns the est list after the
\* call.  es_gen is the generator expression of line 19, evaluated left to
\* right.
RECURSIVE calc_es(_, _, _, _)
RECURSIVE es_gen(_, _, _, _, _)
calc_es(dur, preds, e, i) ==
    IF preds[i] # <<>>
    THEN LET g == es_gen(dur, preds, e, preds[i], <<>>)
         IN [g.est EXCEPT ![i] = MaxSeq(g.vals)]
    ELSE e

\* the generator without the predecessor's duration
es_gen_nodur(dur, preds, e, ps, vals) ==
    IF ps = <<>> THEN [est |-> e, vals |-> vals]
    ELSE LET p == Head(ps)
             e1 == calc_es(dur, preds, e, p)
         IN es_gen(dur, preds, e1, Tail(ps), Append(vals, e1[p]))

es_gen(dur, preds, e, ps, vals) ==
    IF ps = <<>> THEN [est |-> e, vals |-> vals]
    ELSE LET p == Head(ps)
             e1 == calc_es(dur, preds, e, p)
         IN es_gen(dur, preds, e1, Tail(ps), Append(vals, e1[p] + dur[p]))

\* calc_lf(i) writes lst[i] and returns it; lf_gen is the generator expression
\* of line 26.
RECURSIVE calc_lf(_, _, _, _, _)
RECURSIVE lf_gen(_, _, _, _, _, _)
calc_lf(dur, succs, e, l, i) ==
    IF i = Cardinality(DOMAIN dur) - 1
    THEN [l EXCEPT ![i] = e[i]]
    ELSE IF succs[i] # <<>>
    THEN LET g == lf_gen(dur, succs, e, l, succs[i], <<>>)
         IN [g.lst EXCEPT ![i] = MinSeq(g.vals)]
    ELSE l

lf_gen(dur, succs, e, l, ss, vals) ==
    IF ss = <<>> THEN [lst |-> l, vals |-> vals]
    ELSE LET s == Head(ss)
             l1 == calc_lf(dur, succs, e, l, s)
         IN lf_gen(dur, succs, e, l1, Tail(ss), Append(vals, l1[s] - dur[s]))

calculate_critical_times(dur, preds, successors) ==
    LET m == Cardinality(DOMAIN dur)
        succs == IF DOMAIN successors = {}
                 THEN successors_by_predecessors(preds)
                 ELSE successors
        est0 == [i \in Acts(m) |-> 0]
        lst0 == [i \in Acts(m) |-> 0]
        est1 == calc_es(dur, preds, est0, m - 1)
        lst1 == calc_lf(dur, succs, est1, lst0, 0)
    IN [est |-> est1, lst |-> lst1]

\* ------------------------------------------------------ input networks
RECURSIVE Closure(_, _, _)
Closure(preds, S, fuel) ==
    IF fuel = 0 THEN S
    ELSE Closure(preds, S \cup UNION {Range(preds[j]) : j \in S}, fuel - 1)

\* every activity from which i is reachable along predecessor links
Ancestors(preds, i) ==
    Closure(preds, Range(preds[i]), Cardinality(DOMAIN preds))

Acyclic(preds) == \A i \in DOMAIN preds : i \notin Ancestors(preds, i)

\* acyclic, activity 0 the only source, activity n-1 the only sink
WellFormed(preds) ==
    LET m == Cardinality(DOMAIN preds)
    IN /\ Acyclic(preds)
       /\ \A i \in Acts(m) : (preds[i] = <<>>) <=> (i = 0)
       /\ \A i \in Acts(m) :
              (\A j \in Acts(m) : i \notin Range(preds[j])) <=> (i = m - 1)

\* the list of the elements of S in increasing order
AscList(S, m) == SelectSeq(RangeSeq(m), LAMBDA j : j \in S)

Reverse(s) == [x \in 1..Len(s) |-> s[Len(s) + 1 - x]]

\* the lists that enumerate the set S in increasing and in decreasing order
ListsOf(S, m) == {AscList(S, m), Reverse(AscList(S, m))}

\* the networks whose predecessor lists enumerate the sets ps[i], i \in D
RECURSIVE ListNetworks(_, _, _)
ListNetworks(ps, D, m) ==
    IF D = {} THEN {<<>>}
    ELSE LET i == CHOOSE x \in D : \A y \in D : x >= y
         IN {f @@ (i :> l) : f \in ListNetworks(ps, D \ {i}, m),
                             l \in ListsOf(ps[i], m)}

\* the well-formed networks of m activities
Networks(m) ==
    LET sets == {ps \in [Acts(m) -> SUBSET Acts(m)] :
                    WellFormed([i \in Acts(m) |-> AscList(ps[i], m)])}
    IN UNION {{[i \in Acts(m) |-> f[i]] : f \in ListNetworks(ps, Acts(m), m)} :
                 ps \in sets}

TopologicalOrders(preds) ==
    LET m == Cardinality(DOMAIN preds)
    IN {s \in [1..m -> Acts(m)] :
           /\ \A x, y \in 1..m : s[x] = s[y] => x = y
           /\ \A x \in 1..m : \A p \in Range(preds[s[x]]) :
                  \E y \in 1..(x - 1) : s[y] = p}

\* ------------------------------------------------------ TimeCapacityNode
Root == 1

\* __init__: a node with the given time that holds the list object capref
TimeCapacityNode(time, capref) ==
    [time |-> time, capacity |-> capref, next |-> None, prev |-> None]

\* copy without the copy: the same list object is handed back
copy_alias(h, ref) == [heap |-> h, ref |-> ref]

\* list.copy(): a new list object with the elements of the object ref
copy(h, ref) == [heap |-> Append(h, h[ref]), ref |-> Len(h) + 1]

insert_after(ns, h, self, time) ==
    LET c == copy(h, ns[self].capacity)
        id == Len(ns) + 1
        node == [TimeCapacityNode(time, c.ref) EXCEPT
                    !.prev = self, !.next = ns[self].next]
        ns1 == Append(ns, node)
        ns2 == IF ns[self].next # None
               THEN [ns1 EXCEPT ![ns[self].next].prev = id]
               ELSE ns1
    IN [nodes |-> [ns2 EXCEPT ![self].next = id], heap |-> c.heap, node |-> id]

\* enough with a strict comparison
\* a check that accepts a breakpoint one unit short in some resource
enough_short(ns, h, self, demand) ==
    \A i \in DOMAIN demand : h[ns[self].capacity][i] + 1 >= demand[i]

enough_strict(ns, h, self, demand) ==
    \A i \in DOMAIN demand : h[ns[self].capacity][i] > demand[i]

enough(ns, h, self, demand) ==
    \A i \in DOMAIN demand : h[ns[self].capacity][i] >= demand[i]

consume(ns, h, self, demand) ==
    [h EXCEPT ![ns[self].capacity] =
        [i \in DOMAIN @ |-> IF i \in DOMAIN demand THEN @[i] - demand[i] ELSE @[i]]]

\* ---------------------------------------------------- ActivityListDecoder
\* lines 65-68: the finish node of a predecessor with the greatest time, the
\* first one on ties; reading .time of a missing finish node raises.
RECURSIVE select_start(_, _, _, _)
\* select_start with the comparison of line 67 turned around
select_start_lt(ns, fn, ps, start) ==
    IF ps = <<>> THEN [ok |-> TRUE, start |-> start]
    ELSE LET p == Head(ps)
         IN IF fn[p] = None THEN [ok |-> FALSE, start |-> start]
            ELSE select_start(ns, fn, Tail(ps),
                     IF ns[fn[p]].time < ns[start].time THEN fn[p] ELSE start)

select_start(ns, fn, ps, start) ==
    IF ps = <<>> THEN [ok |-> TRUE, start |-> start]
    ELSE LET p == Head(ps)
         IN IF fn[p] = None THEN [ok |-> FALSE, start |-> start]
            ELSE select_start(ns, fn, Tail(ps),
                     IF ns[fn[p]].time > ns[start].time THEN fn[p] ELSE start)

\* lines 73-76: follow the next links to the first node with enough capacity;
\* stepping past the last node raises (None has no attribute time).
RECURSIVE search(_, _, _, _)
\* the search guarded against the end of the list: it stops at the last node
search_stop_at_end(ns, h, node, demand) ==
    IF enough(ns, h, node, demand) \/ ns[node].next = None
    THEN [ok |-> TRUE, node |-> node]
    ELSE search(ns, h, ns[node].next, demand)

search(ns, h, node, demand) ==
    IF enough(ns, h, node, demand) THEN [ok |-> TRUE, node |-> node]
    ELSE IF ns[node].next = None THEN [ok |-> FALSE, node |-> None]
    ELSE search(ns, h, ns[node].next, demand)

\* the finish breakpoint looked up by its time anywhere in the list
ensure_finish_by_time(ns, h, node, finish_time) ==
    IF \E x \in 1..Len(ns) : ns[x].time = finish_time
    THEN [nodes |-> ns, heap |-> h,
          node |-> CHOOSE x \in 1..Len(ns) : ns[x].time = finish_time]
    ELSE insert_after(ns, h, node, finish_time)

\* lines 78-81
ensure_finish(ns, h, node, finish_time) ==
    IF ns[node].next = None \/ ns[ns[node].next].time # finish_time
    THEN insert_after(ns, h, node, finish_time)
    ELSE [nodes |-> ns, heap |-> h, node |-> ns[node].next]

\* a consume loop that takes in the finish breakpoint as well
RECURSIVE consume_through(_, _, _, _, _)
consume_through(ns, h, t, finish_node, demand) ==
    IF t = None THEN [ok |-> FALSE, heap |-> h]
    ELSE IF t = finish_node THEN [ok |-> TRUE, heap |-> consume(ns, h, t, demand)]
    ELSE consume_through(ns, consume(ns, h, t, demand), ns[t].next, finish_node, demand)

\* lines 83-86: consume at every node from t up to, excluding, finish_node
RECURSIVE consume_until(_, _, _, _, _)
consume_until(ns, h, t, finish_node, demand) ==
    IF t = finish_node THEN [ok |-> TRUE, heap |-> h]
    ELSE IF t = None THEN [ok |-> FALSE, heap |-> h]
    ELSE consume_until(ns, consume(ns, h, t, demand), ns[t].next, finish_node, demand)

\* one iteration of the for loop of decode (lines 65-89) for activity i
place(ns, h, st0, fn, i, dur, preds, dems) ==
    LET s0 == select_start(ns, fn, preds[i], Root)
        raised == [ok |-> FALSE, nodes |-> ns, heap |-> h, starts |-> st0,
                   finish_nodes |-> fn]
    IN IF ~s0.ok THEN raised
       ELSE LET f == search(ns, h, s0.start, dems[i])
            IN IF ~f.ok THEN raised
               ELSE LET start == f.node
                        finish_time == ns[start].time + dur[i]
                        e == ensure_finish(ns, h, f.node, finish_time)
                        c == consume_until(e.nodes, e.heap, start, e.node, dems[i])
                    IN IF ~c.ok THEN raised
                       ELSE [ok |-> TRUE, nodes |-> e.nodes, heap |-> c.heap,
                             starts |-> [st0 EXCEPT ![i] = e.nodes[start].time],
                             finish_nodes |-> [fn EXCEPT ![i] = e.node]]


\* ---------------------------------------------------- ActivityListSampler
\* min(x, key=rule): the first element of x with the least key
\* the element of x with the least key, the smallest index among ties
min_by_index(x, key) ==
    LET least == MinSeq([y \in 1..Len(x) |-> key[x[y]]])
    IN CHOOSE i \in Range(x) :
           /\ key[i] = least
           /\ \A j \in Range(x) : key[j] = least => i <= j

min_by(x, key) ==
    LET least == MinSeq([y \in 1..Len(x) |-> key[x[y]]])
        first == CHOOSE y \in 1..Len(x) :
                    /\ key[x[y]] = least
                    /\ \A z \in 1..(y - 1) : key[x[z]] # least
    IN x[first]

\* the activities the pick of line 106 may return: choice(x) any element,
\* min_rule the first with the least key
pick(x, r) ==
    IF r.kind = "random" THEN Range(x) ELSE {min_by(x, r.key)}

\* list.remove(i): the list without the first occurrence of i
remove(x, i) ==
    LET first == CHOOSE y \in 1..Len(x) :
                    x[y] = i /\ \A z \in 1..(y - 1) : x[z] # i
    IN [y \in 1..(Len(x) - 1) |-> IF y < first THEN x[y] ELSE x[y + 1]]

RECURSIVE release(_, _, _, _)
\* the loop of lines 109-112 that makes every successor ready at once
release_eager(rm, rdy, ss, i) ==
    IF ss = <<>> THEN [ok |-> TRUE, rem |-> rm, ready |-> rdy]
    ELSE LET s == Head(ss)
         IN IF i \notin rm[s] THEN [ok |-> FALSE, rem |-> rm, ready |-> rdy]
            ELSE LET rm1 == [rm EXCEPT ![s] = @ \ {i}]
                 IN release(rm1, Append(rdy, s), Tail(ss), i)

\* lines 109-112: drop i from the remaining predecessors of each successor s
\* and append s to ready when none remains; set.remove of a missing element
\* raises.
release(rm, rdy, ss, i) ==
    IF ss = <<>> THEN [ok |-> TRUE, rem |-> rm, ready |-> rdy]
    ELSE LET s == Head(ss)
         IN IF i \notin rm[s] THEN [ok |-> FALSE, rem |-> rm, ready |-> rdy]
            ELSE LET rm1 == [rm EXCEPT ![s] = @ \ {i}]
                 IN release(rm1, IF rm1[s] = {} THEN Append(rdy, s) ELSE rdy,
                            Tail(ss), i)

\* ------------------------------------------------------------------ main
capacity == heap[CapacityRef]

\* the sum of all demands, per resource
TotalDemand(dems) ==
    [r \in Acts(NumRes) |->
        SumOver(DOMAIN dems, [i \in DOMAIN dems |-> dems[i][r]])]

Init ==
    /\ n \in 1..MaxN
    /\ predecessors \in Networks(n)
    /\ alist \in TopologicalOrders(predecessors)
    /\ duration \in [Acts(n) -> 0..MaxDur]
    /\ demands \in [Acts(n) -> [Acts(NumRes) -> 0..MaxDem]]
    /\ heap \in {<<c>> : c \in [Acts(NumRes) -> 1..MaxCap]}
    /\ succ = <<>>
    /\ est = <<>>
    /\ lst = <<>>
    /\ pc = "decoding"
    /\ call = 0
    /\ nodes = <<>>
    /\ starts = <<>>
    /\ finish_nodes = <<>>
    /\ k = 0
    /\ st = <<>>
    /\ res = <<>>
    /\ rem = <<>>
    /\ ready = <<>>
    /\ rule = <<>>

\* main, lines 168-169
CriticalTimes ==
    /\ pc = "main"
    /\ LET s == successors_by_predecessors(predecessors)
           ct == calculate_critical_times(duration, predecessors, s)
       IN /\ succ' = s
          /\ est' = ct.est
          /\ lst' = ct.lst
    /\ pc' = "timed"
    /\ UNCHANGED <<inputVars, call, st, decodeVars, genVars>>

\* decode, lines 59-62.  The nodes and vectors of an earlier call are no longer
\* referenced by anything and are dropped; the caller's capacity list stays
\* the object CapacityRef.
DecodeBegin ==
    /\ pc = "decoding"
    /\ call < NumCalls
    /\ call' = call + 1
    /\ LET c == copy(<<capacity>>, CapacityRef)
       IN /\ heap' = c.heap
          /\ nodes' = <<TimeCapacityNode(0, c.ref)>>
    /\ starts' = [i \in Acts(n) |-> 0]
    /\ finish_nodes' = [[i \in Acts(n) |-> None] EXCEPT ![0] = Root]
    /\ k' = 1
    /\ pc' = "loop"
    /\ UNCHANGED <<inputVars, succ, est, lst, st, genVars>>

\* decode, lines 64-89: one iteration of the for loop; an exception ends the
\* call in "raised"
DecodeStep ==
    /\ pc = "loop"
    /\ k <= Len(alist)
    /\ LET r == place(nodes, heap, starts, finish_nodes, alist[k],
                      duration, predecessors, demands)
       IN /\ nodes' = r.nodes
          /\ heap' = r.heap
          /\ starts' = r.starts
          /\ finish_nodes' = r.finish_nodes
          /\ k' = IF r.ok THEN k + 1 ELSE k
          /\ pc' = IF r.ok THEN "loop" ELSE "raised"
    /\ UNCHANGED <<inputVars, mainVars, genVars>>

\* decode, line 91, and the assignment of the result in main
DecodeReturn ==
    /\ pc = "loop"
    /\ k > Len(alist)
    /\ st' = Append(st, starts)
    /\ pc' = "decoding"
    /\ UNCHANGED <<inputVars, succ, est, lst, call, decodeVars, genVars>>

Next ==
    \/ DecodeBegin
    \/ DecodeStep
    \/ DecodeReturn

Spec == Init /\ [][Next]_vars

\* ---------------------------------------- critical times on their own
InitCpm ==
    /\ n \in 1..MaxN
    /\ predecessors \in Networks(n)
    /\ duration \in [Acts(n) -> 0..MaxCpmDur]
    /\ demands = [i \in Acts(n) |-> ZeroVec]
    /\ alist = <<>>
    /\ heap = <<ZeroVec>>
    /\ succ = <<>>
    /\ est = <<>>
    /\ lst = <<>>
    /\ pc = "main"
    /\ call = 0
    /\ nodes = <<>>
    /\ starts = <<>>
    /\ finish_nodes = <<>>
    /\ k = 0
    /\ st = <<>>
    /\ res = <<>>
    /\ rem = <<>>
    /\ ready = <<>>
    /\ rule = <<>>

NextCpm == CriticalTimes

SpecCpm == InitCpm /\ [][NextCpm]_vars

\* ------------------------------------------------- the sampler on its own
\* every list of at most MaxPreds indices below m
IndexLists(m) == UNION {[1..l -> Acts(m)] : l \in 0..MaxPreds}

Rules(m) ==
    {[kind |-> "random", key |-> [i \in Acts(m) |-> 0]]}
    \cup {[kind |-> "min_rule", key |-> f] : f \in [Acts(m) -> 0..MaxKey]}

InitGen ==
    /\ n \in 1..MaxN
    /\ predecessors \in IF n <= MaxListN THEN [Acts(n) -> IndexLists(n)]
                                         ELSE Networks(n)
    /\ rule \in Rules(n)
    /\ duration = [i \in Acts(n) |-> 0]
    /\ demands = [i \in Acts(n) |-> ZeroVec]
    /\ alist = <<>>
    /\ heap = <<ZeroVec>>
    /\ succ = <<>>
    /\ est = <<>>
    /\ lst = <<>>
    /\ pc = "sampler"
    /\ call = 0
    /\ nodes = <<>>
    /\ starts = <<>>
    /\ finish_nodes = <<>>
    /\ k = 0
    /\ st = <<>>
    /\ res = <<>>
    /\ rem = <<>>
    /\ ready = <<>>

\* ActivityListSampler.__init__, lines 95-98
SamplerInit ==
    /\ pc = "sampler"
    /\ succ' = successors_by_predecessors(predecessors)
    /\ pc' = "constructed"
    /\ UNCHANGED <<inputVars, est, lst, call, st, decodeVars, genVars>>

\* _gen, lines 101-103
GenBegin ==
    /\ pc = "constructed"
    /\ res' = <<>>
    /\ rem' = [i \in Acts(n) |-> Range(predecessors[i])]
    /\ ready' = SelectSeq(RangeSeq(n), LAMBDA i : Range(predecessors[i]) = {})
    /\ pc' = "gen"
    /\ UNCHANGED <<inputVars, mainVars, decodeVars, rule>>

\* _gen, lines 105-112: one iteration of the while loop
GenStep ==
    /\ pc = "gen"
    /\ ready # <<>>
    /\ \E i \in pick(ready, rule) :
          LET r == release(rem, remove(ready, i), succ[i], i)
          IN /\ res' = Append(res, i)
             /\ rem' = r.rem
             /\ ready' = r.ready
             /\ pc' = IF r.ok THEN "gen" ELSE "raised"
    /\ UNCHANGED <<inputVars, mainVars, decodeVars, rule>>

\* _gen, line 113
GenReturn ==
    /\ pc = "gen"
    /\ ready = <<>>
    /\ alist' = res
    /\ pc' = "returned"
    /\ UNCHANGED <<n, duration, predecessors, demands, mainVars, decodeVars,
                   genVars>>

NextGen ==
    \/ SamplerInit
    \/ GenBegin
    \/ GenStep
    \/ GenReturn

SpecGen == InitGen /\ [][NextGen]_vars

\* ======================================================================
\* Properties of decode (checked under Spec)
\* ======================================================================
\* a decode call has returned; starts is the vector it returned
Returned == pc = "decoding" /\ call > 0

\* every demand is component-wise <= capacity
DemandsFit ==
    \A i \in Acts(n) : \A r \in Acts(NumRes) : demands[i][r] <= capacity[r]

Active(t) == {i \in Acts(n) : starts[i] <= t /\ t < starts[i] + duration[i]}

Usage(t, r) == SumOver(Active(t), [i \in Acts(n) |-> demands[i][r]])

Horizon == SumOver(Acts(n), duration)

\* the greatest finish time of the predecessors of i, 0 if it has none
PrecedenceStart(i) ==
    IF predecessors[i] = <<>> THEN 0
    ELSE MaxSeq([x \in 1..Len(predecessors[i]) |->
                    starts[predecessors[i][x]] + duration[predecessors[i][x]]])

\* C1: the schedule a decode returns never uses more of a resource than its
\* capacity, at any time, when every demand fits the capacity.
C1_ResourceFeasible ==
    (Returned /\ DemandsFit) =>
        \A t \in 0..Horizon : \A r \in Acts(NumRes) : Usage(t, r) <= capacity[r]

\* C2: in the schedule a decode returns every activity starts no earlier than
\* each of its predecessors finishes, when every demand fits the capacity.
C2_PrecedenceFeasible ==
    (Returned /\ DemandsFit) =>
        \A i \in Acts(n) : \A p \in Range(predecessors[i]) :
            starts[i] >= starts[p] + duration[p]

\* C4: when every demand fits the capacity decode never raises: the capacity
\* search never steps past the last breakpoint, every predecessor's finish
\* breakpoint is there when read, and the call returns a start per activity.
C4_DecodeTerminates ==
    DemandsFit =>
        /\ pc # "raised"
        /\ pc = "loop" => \A x \in 1..(k - 1) : finish_nodes[alist[x]] # None
        /\ Returned => (DOMAIN st[call] = Acts(n) /\ k = n + 1)

\* a returned schedule in which the capacity search delayed some activity
C4_Witness ==
    /\ Returned
    /\ DemandsFit
    /\ n = MaxN
    /\ \E i \in Acts(n) : starts[i] > PrecedenceStart(i)

\* C5: with capacity equal to the sum of all demands the returned starts are
\* the earliest starts of calculate_critical_times, whatever the order.
C5_UnconstrainedIsEarliest ==
    (Returned /\ capacity = TotalDemand(demands)) =>
        starts = calculate_critical_times(duration, predecessors,
                     successors_by_predecessors(predecessors)).est

\* two demanding activities run in parallel and the sink starts after 0
C5_Witness ==
    /\ Returned
    /\ capacity = TotalDemand(demands)
    /\ n = MaxN
    /\ \E i, j \in Acts(n) :
          /\ i # j
          /\ demands[i][0] > 0 /\ demands[j][0] > 0
          /\ starts[i] = starts[j]
          /\ duration[i] > 0 /\ duration[j] > 0
    /\ starts[n - 1] > 0

\* C10: a second decode of the same inputs on the same decoder returns the
\* start vector of the first, and no step changes the capacity vector, the
\* demand vectors, the durations, the predecessors or the activity order.
C10_Idempotent ==
    /\ [](Returned /\ call = NumCalls => st[call] = st[1])
    /\ [][/\ capacity' = capacity
          /\ demands' = demands
          /\ alist' = alist
          /\ duration' = duration
          /\ predecessors' = predecessors]_vars

\* the second call has returned a schedule in which capacity was consumed
\* and an activity was delayed
C10_Witness ==
    /\ Returned
    /\ call = NumCalls
    /\ n = MaxN
    /\ DemandsFit
    /\ \E i \in Acts(n) : starts[i] > PrecedenceStart(i)
    /\ \E x \in 1..Len(nodes) : heap[nodes[x].capacity] # capacity

\* ======================================================================
\* Properties of the sampler and the precedence index (checked under SpecGen)
\* ======================================================================
Position(s, i) == CHOOSE x \in 1..Len(s) : s[x] = i

\* C3: on an acyclic predecessor relation the list _gen returns, under the
\* random policy and under min_rule with any key, has length n, holds each
\* index once, and puts every activity after all its predecessors.
C3_TopologicalOrder ==
    (pc = "returned" /\ Acyclic(predecessors)) =>
        /\ Len(alist) = n
        /\ \A i \in Acts(n) : Cardinality({x \in 1..Len(alist) : alist[x] = i}) = 1
        /\ \A i \in Acts(n) : \A p \in Range(predecessors[i]) :
               Position(alist, p) < Position(alist, i)

\* an order that is not the index order, over at least three activities
C3_Witness ==
    /\ pc = "returned"
    /\ Acyclic(predecessors)
    /\ n >= MaxListN
    /\ Len(alist) = n
    /\ alist # RangeSeq(n)
    /\ \E i \in Acts(n) : Len(predecessors[i]) >= 2

\* C9: j is listed in succ[i] exactly when i is listed in predecessors[j],
\* and no succ[i] lists an index twice.
C9_SuccessorIndex ==
    pc # "sampler" =>
        /\ DOMAIN succ = Acts(n)
        /\ \A i, j \in Acts(n) :
               (j \in Range(succ[i])) <=> (i \in Range(predecessors[j]))
        /\ \A i \in Acts(n) : \A x, y \in 1..Len(succ[i]) :
               succ[i][x] = succ[i][y] => x = y

\* a predecessor list names one index twice and some activity has two successors
C9_Witness ==
    /\ pc = "constructed"
    /\ \E j \in Acts(n) :
          /\ Len(predecessors[j]) = 2
          /\ predecessors[j][1] = predecessors[j][2]
    /\ \E i \in Acts(n) : Len(succ[i]) >= 2

\* ======================================================================
\* Properties of calculate_critical_times (checked under SpecCpm)
\* ======================================================================
\* C6: est[i] is 0 for an activity without predecessors and otherwise the
\* greatest est[p] + duration[p] over its predecessors p; est[i] >= 0.
C6_EarliestStart ==
    pc = "timed" =>
        \A i \in Acts(n) :
            /\ est[i] >= 0
            /\ est[i] = IF predecessors[i] = <<>> THEN 0
                        ELSE MaxSeq([x \in 1..Len(predecessors[i]) |->
                                 est[predecessors[i][x]]
                                     + duration[predecessors[i][x]]])

\* an activity with two predecessors that finish at different times
C6_Witness ==
    /\ pc = "timed"
    /\ n = MaxN
    /\ \E i \in Acts(n) : \E p, q \in Range(predecessors[i]) :
          /\ est[p] + duration[p] < est[q] + duration[q]
          /\ est[p] + duration[p] > 0
          /\ est[i] = est[q] + duration[q]

\* C7: est[i] <= lst[i] for every activity and est = lst at the sink.
C7_EarliestBeforeLatest ==
    pc = "timed" =>
        /\ \A i \in Acts(n) : est[i] <= lst[i]
        /\ est[n - 1] = lst[n - 1]

\* the latest finish of the specification: est at the sink, and for every
\* other activity the least latest finish minus duration over its successors
RECURSIVE LatestFinish(_)
LatestFinish(i) ==
    IF i = n - 1 THEN est[n - 1]
    ELSE MinSeq([x \in 1..Len(succ[i]) |->
                    LatestFinish(succ[i][x]) - duration[succ[i][x]]])

\* C8: the second vector is the latest start, latest finish minus duration.
C8_LatestStart ==
    pc = "timed" =>
        \A i \in Acts(n) : lst[i] = LatestFinish(i) - duration[i]

\* ======================================================================
\* Properties of decode on demands that do not fit (checked under Spec)
\* ======================================================================
\* the demand of activity i is component-wise <= capacity
Fits(i) == \A r \in Acts(NumRes) : demands[i][r] <= capacity[r]

\* C11 as stated: with a demand over capacity decode neither returns nor
\* ends in an error.
C11_NeverEnds ==
    ~DemandsFit => (~Returned /\ pc # "raised")

\* C11 amended: with a demand over capacity decode never returns a start
\* vector and never places an activity whose demand does not fit; the step
\* that reaches the first such activity of the order ends the call with the
\* exception raised (the search steps past the last breakpoint).
C11_InfeasibleRaises ==
    /\ [](~DemandsFit =>
            /\ ~Returned
            /\ pc = "loop" => \A x \in 1..(k - 1) : Fits(alist[x])
            /\ pc = "raised" => ~Fits(alist[k]))
    /\ [][(pc = "loop" /\ k <= Len(alist) /\ ~Fits(alist[k]))
             => pc' = "raised"]_vars

\* the call raised at an activity that is not the first of the order, after
\* activities that fit were placed
C11_Witness ==
    /\ pc = "raised"
    /\ ~DemandsFit
    /\ k > 2
    /\ Len(nodes) > 2

\* ======================================================================
\* Properties of the time-capacity profile (checked under Spec)
\* ======================================================================
\* the activities decode has placed so far in the running or returned call
Placed == IF nodes = <<>> THEN {} ELSE {alist[x] : x \in 1..(k - 1)}

\* the remaining capacity the node x holds
Remaining(x) == heap[nodes[x].capacity]

\* C12: the breakpoint times are strictly increasing along the next links,
\* the root has time 0, and no two breakpoints share a time.
C12_ProfileOrdered ==
    nodes # <<>> =>
        /\ nodes[Root].time = 0
        /\ \A x \in 1..Len(nodes) :
               nodes[x].next # None => nodes[x].time < nodes[nodes[x].next].time
        /\ \A x, y \in 1..Len(nodes) : nodes[x].time = nodes[y].time => x = y

\* the capacity that the placed activities leave at time t
TrueRemaining(t) ==
    [r \in Acts(NumRes) |->
        capacity[r]
        - SumOver({i \in Placed : starts[i] <= t /\ t < starts[i] + duration[i]},
                  [i \in Acts(n) |-> demands[i][r]])]

\* C13: every breakpoint holds capacity minus the demands of the placed
\* activities whose interval contains the breakpoint's time.
C13_ProfileTruthful ==
    (nodes # <<>> /\ DemandsFit) =>
        \A x \in 1..Len(nodes) : Remaining(x) = TrueRemaining(nodes[x].time)

\* a step of decode that placed the activity alist[k]
PlacedStep == pc = "loop" /\ pc' = "loop" /\ k' = k + 1

\* C14: a placement of activity i at start s with finish f = s + duration[i]
\* subtracts demands[i] once from every breakpoint whose time t satisfies
\* s <= t < f and leaves the capacity of every other breakpoint unchanged.
C14_ConsumeInterval ==
    [][PlacedStep =>
          LET i == alist[k]
              s == starts'[i]
              f == s + duration[i]
          IN \A x \in 1..Len(nodes) :
                 heap'[nodes'[x].capacity] =
                     IF s <= nodes[x].time /\ nodes[x].time < f
                     THEN [r \in Acts(NumRes) |-> Remaining(x)[r] - demands[i][r]]
                     ELSE Remaining(x)]_vars

\* the activities processed before i in the order alist
Before(i) == {alist[x] : x \in 1..(Position(alist, i) - 1)}

\* placing i at t keeps the usage of the activities before i plus demands[i]
\* within capacity over [t, t + duration[i])
FeasibleAt(i, t) ==
    \A u \in t..(t + duration[i] - 1) : \A r \in Acts(NumRes) :
        SumOver({j \in Before(i) : starts[j] <= u /\ u < starts[j] + duration[j]},
                [j \in Acts(n) |-> demands[j][r]]) + demands[i][r] <= capacity[r]

\* C15: decode places every activity, in the order processed, at the smallest
\* time not before the finish of its predecessors at which its demand fits
\* together with the activities placed before it.
C15_EarliestFeasible ==
    (Returned /\ DemandsFit) =>
        \A i \in Acts(n) :
            /\ starts[i] >= PrecedenceStart(i)
            /\ FeasibleAt(i, starts[i])
            /\ \A t \in PrecedenceStart(i)..(starts[i] - 1) : ~FeasibleAt(i, t)

\* ======================================================================
\* Properties of the ready list of _gen (checked under SpecGen)
\* ======================================================================
\* the step of _gen at which j became ready: 0 when j has no predecessor,
\* else the position in res of the predecessor of j emitted last
ReadyAt(j) ==
    IF predecessors[j] = <<>> THEN 0
    ELSE MaxSeq([x \in 1..Len(predecessors[j]) |->
                    Position(res, predecessors[j][x])])

\* the activities not emitted whose predecessors are all emitted
ReadySet ==
    {j \in Acts(n) : j \notin Range(res) /\ Range(predecessors[j]) \subseteq Range(res)}

\* C16: under min_rule the ready list holds the ready activities ordered by
\* the step at which they became ready, then by index, and every step emits
\* the first element of the ready list among those with the least key.
C16_MinRuleFirstInReady ==
    /\ []((pc = "gen" /\ rule.kind = "min_rule") =>
            /\ Range(ready) = ReadySet
            /\ \A x, y \in 1..Len(ready) :
                   x < y => \/ ReadyAt(ready[x]) < ReadyAt(ready[y])
                            \/ /\ ReadyAt(ready[x]) = ReadyAt(ready[y])
                               /\ ready[x] < ready[y])
    /\ [][(pc = "gen" /\ rule.kind = "min_rule" /\ res' # res) =>
            \E y \in 1..Len(ready) :
                /\ res' = Append(res, ready[y])
                /\ \A z \in 1..Len(ready) : rule.key[ready[z]] >= rule.key[ready[y]]
                /\ \A z \in 1..(y - 1) : rule.key[ready[z]] > rule.key[ready[y]]]_vars

\* an emitted activity that was tied on the least key with a ready activity
\* of smaller index, which stood later in the ready list
C16_Witness ==
    /\ pc = "returned"
    /\ rule.kind = "min_rule"
    /\ Len(alist) = n
    /\ \E x \in 1..Len(alist) : \E j \in Acts(n) :
          /\ j < alist[x]
          /\ rule.key[j] = rule.key[alist[x]]
          /\ \E y \in (x + 1)..Len(alist) : alist[y] = j
          /\ \A q \in Range(predecessors[j]) : \E y \in 1..(x - 1) : alist[y] = q

\* _gen runs to its end: a step that can be taken is taken
FairSpecGen == SpecGen /\ WF_vars(NextGen)

\* no activity lists a predecessor twice
NoDuplicates(preds) ==
    \A i \in DOMAIN preds : \A x, y \in 1..Len(preds[i]) :
        preds[i][x] = preds[i][y] => x = y

\* i is on a cycle of the predecessor relation (or lists itself)
OnCycle(preds, i) == i \in Ancestors(preds, i)

\* the activities that are neither on a cycle nor reachable from one
Free(preds) ==
    {i \in DOMAIN preds :
        /\ ~OnCycle(preds, i)
        /\ \A a \in Ancestors(preds, i) : ~OnCycle(preds, a)}

\* C17: on a predecessor relation with a cycle or a self-reference _gen does
\* not raise, ends, and returns a list shorter than n holding, each once and
\* after its predecessors, exactly the activities neither on a cycle nor
\* reachable from one.
C17_CycleShortOutput ==
    /\ []((~Acyclic(predecessors) /\ NoDuplicates(predecessors)) =>
            /\ pc # "raised"
            /\ pc = "returned" =>
                 /\ Len(alist) < n
                 /\ Range(alist) = Free(predecessors)
                 /\ \A x, y \in 1..Len(alist) : alist[x] = alist[y] => x = y
                 /\ \A x \in 1..Len(alist) : \A p \in Range(predecessors[alist[x]]) :
                        \E y \in 1..(x - 1) : alist[y] = p)
    /\ (~Acyclic(predecessors) /\ NoDuplicates(predecessors)) ~> (pc = "returned")

\* a cycle below a chain of two free activities, one activity fed by both
C17_Witness ==
    /\ pc = "returned"
    /\ ~Acyclic(predecessors)
    /\ NoDuplicates(predecessors)
    /\ Len(alist) >= 1
    /\ \E i \in Acts(n) : OnCycle(predecessors, i) /\ predecessors[i] # <<i>>
    /\ \E i \in Acts(n) :
          /\ ~OnCycle(predecessors, i)
          /\ i \notin Free(predecessors)
          /\ Range(predecessors[i]) \cap Range(alist) # {}

\* ======================================================================
\* Properties of the breakpoints of decode (checked under Spec)
\* ======================================================================
\* C18: when every demand fits the capacity, in every state of decode the
\* remaining capacity of every breakpoint lies between 0 and the capacity in
\* every resource.
C18_CapacityBounds ==
    (DemandsFit /\ nodes # <<>>) =>
        \A x \in 1..Len(nodes) : \A r \in Acts(NumRes) :
            /\ 0 <= Remaining(x)[r]
            /\ Remaining(x)[r] <= capacity[r]

\* a breakpoint used up entirely by two placements, next to untouched ones
C18_Witness ==
    /\ DemandsFit
    /\ pc = "loop"
    /\ k > 2
    /\ \E x \in 1..Len(nodes) :
          /\ Remaining(x)[0] = 0
          /\ capacity[0] = MaxCap
          /\ Cardinality({i \in Placed : starts[i] = nodes[x].time /\ demands[i][0] = 1}) >= 2
    /\ \E x \in 1..Len(nodes) : nodes[x].next # None /\ Remaining(x) = capacity

\* C19: a placement subtracts the demand at one breakpoint only, the start
\* breakpoint, whose next link is then the finish breakpoint of the activity;
\* every other breakpoint keeps its capacity and a breakpoint added by the
\* step holds what the start breakpoint held before.
C19_SingleNodeConsumed ==
    [][PlacedStep =>
          LET i == alist[k]
          IN \E s \in 1..Len(nodes) :
                /\ nodes[s].time = starts'[i]
                /\ nodes'[s].next = finish_nodes'[i]
                /\ heap'[nodes'[s].capacity] =
                       [r \in Acts(NumRes) |-> Remaining(s)[r] - demands[i][r]]
                /\ \A x \in 1..Len(nodes) :
                       x # s => heap'[nodes'[x].capacity] = Remaining(x)
                /\ Len(nodes') <= Len(nodes) + 1
                /\ \A x \in (Len(nodes) + 1)..Len(nodes') :
                       /\ x = finish_nodes'[i]
                       /\ heap'[nodes'[x].capacity] = Remaining(s)]_vars

\* a placed activity with a demand whose start time is also the time of a
\* second breakpoint, which still holds the full capacity
C19_Witness ==
    /\ pc = "loop"
    /\ Len(nodes) >= 4
    /\ \E i \in Placed : \E x, y \in 1..Len(nodes) :
          /\ demands[i][0] > 0
          /\ duration[i] > 0
          /\ nodes[x].time = starts[i]
          /\ nodes[x].next = finish_nodes[i]
          /\ Remaining(x)[0] < capacity[0]
          /\ y # x
          /\ nodes[y].time = starts[i]
          /\ Remaining(y) = capacity

\* C20: in every state of decode the list has one last breakpoint (next is
\* None) and it holds the full capacity vector, whatever was placed.
C20_LastNodeFull ==
    nodes # <<>> =>
        /\ Cardinality({x \in 1..Len(nodes) : nodes[x].next = None}) = 1
        /\ \A x \in 1..Len(nodes) : nodes[x].next = None => Remaining(x) = capacity

\* the last breakpoint is the finish of a placed activity with a demand, and
\* a breakpoint that is not the root has been consumed
C20_Witness ==
    /\ pc = "loop"
    /\ Len(nodes) >= 3
    /\ \E i \in Placed :
          /\ demands[i][0] > 0
          /\ finish_nodes[i] # None
          /\ nodes[finish_nodes[i]].next = None
    /\ \E x \in 2..Len(nodes) : nodes[x].next # None /\ Remaining(x) # capacity

====
